---- MODULE Spec2Model ----
(***************************************************************************)
(* Model of the OilPriceAPI MCP server's resilient fetcher,                *)
(* makeApiRequest (src/src/index.ts).  One call of makeApiRequest is a     *)
(* sequence of continuations separated by awaits: the call itself, the     *)
(* settling of fetchFn, the settling of response.json() and the firing of  *)
(* the retry timer.  Each continuation is one action.                      *)
(***************************************************************************)
EXTENDS Integers, Sequences, FiniteSets, TLC

(***************************************************************************)
(* Program constants and the inputs of the environment.                    *)
(***************************************************************************)
maxRetries == 3

\* Largest Retry-After hint (in seconds) the modelled server sends.
MaxHint == 120

\* HTTP statuses the remote API answers with.
Statuses == {200, 204, 301, 401, 403, 404, 429, 500, 503}

\* Retry-After hints, in seconds, on both sides of the 60 second clamp.
HintSeconds == {-5, 0, 5, 60, 61, MaxHint}

\* Response bodies: two JSON envelopes and one body that is not JSON.
BodySuccess == "{\"status\":\"success\",\"data\":\"85.42\"}"
BodyError == "{\"status\":\"error\",\"data\":\"\"}"
BodyHtml == "<html>Bad Gateway</html>"
Bodies == {BodySuccess, BodyError, BodyHtml}

(***************************************************************************)
(* JavaScript numbers, as far as the delay computation needs them: an      *)
(* integer or NaN.                                                         *)
(***************************************************************************)
Num(v) == [kind |-> "num", v |-> v]
NaN == [kind |-> "nan", v |-> 0]
NoDelay == [kind |-> "none", v |-> 0]

MathMin(a, b) ==
  IF a.kind = "nan" \/ b.kind = "nan" THEN NaN
  ELSE IF a.v <= b.v THEN a ELSE b

Times(a, b) ==
  IF a.kind = "nan" \/ b.kind = "nan" THEN NaN ELSE Num(a.v * b.v)

RECURSIVE MathPow(_, _)
MathPow(b, e) == IF e = 0 THEN 1 ELSE b * MathPow(b, e - 1)

(***************************************************************************)
(* Header texts are sequences of one-character strings, so that parseInt   *)
(* can be modelled by what it does.                                        *)
(***************************************************************************)
DigitChars == <<"0", "1", "2", "3", "4", "5", "6", "7", "8", "9">>

IsDigit(c) == \E i \in 1..10 : DigitChars[i] = c
DigitVal(c) == (CHOOSE i \in 1..10 : DigitChars[i] = c) - 1
IsSpace(c) == c = " "

RECURSIVE DecimalText(_)
DecimalText(n) ==
  IF n < 10 THEN <<DigitChars[n + 1]>>
  ELSE Append(DecimalText(n \div 10), DigitChars[(n % 10) + 1])

\* The text a server writes for a delay of h seconds.
IntText(h) == IF h < 0 THEN <<"-">> \o DecimalText(0 - h) ELSE DecimalText(h)

RECURSIVE SkipSpace(_)
SkipSpace(s) ==
  IF s # <<>> /\ IsSpace(Head(s)) THEN SkipSpace(Tail(s)) ELSE s

RECURSIVE DigitRun(_)
DigitRun(s) ==
  IF s # <<>> /\ IsDigit(Head(s)) THEN <<Head(s)>> \o DigitRun(Tail(s))
  ELSE <<>>

RECURSIVE DigitsValue(_, _)
DigitsValue(s, acc) ==
  IF s = <<>> THEN acc ELSE DigitsValue(Tail(s), acc * 10 + DigitVal(Head(s)))

\* parseInt(text, 10): leading white space, an optional sign, then the
\* longest run of decimal digits; NaN when that run is empty.
ParseInt(text) ==
  LET t == SkipSpace(text)
      neg == t # <<>> /\ Head(t) = "-"
      signed == t # <<>> /\ (Head(t) = "-" \/ Head(t) = "+")
      rest == IF signed THEN Tail(t) ELSE t
      run == DigitRun(rest)
  IN IF run = <<>> THEN NaN
     ELSE Num(IF neg THEN 0 - DigitsValue(run, 0) ELSE DigitsValue(run, 0))

\* response.headers.get("Retry-After"): null, or the header's text.
Absent == [present |-> FALSE, text |-> <<>>]
Present(t) == [present |-> TRUE, text |-> t]

HttpDate == <<"W", "e", "d", ",", " ", "2", "1", " ", "O", "c", "t">>
Fractional == <<"1", ".", "5">>

RetryAfterValues ==
  {Absent, Present(<<>>), Present(HttpDate), Present(Fractional)}
    \cup {Present(IntText(h)) : h \in HintSeconds}

\* JavaScript truthiness of string | null.
Truthy(h) == h.present /\ h.text # <<>>

(***************************************************************************)
(* response.json(): the parsed value of the body, or a SyntaxError.        *)
(***************************************************************************)
NoValue == [status |-> "", data |-> ""]

JsonParse(b) ==
  CASE b = BodySuccess ->
         [ok |-> TRUE, value |-> [status |-> "success", data |-> "85.42"]]
    [] b = BodyError ->
         [ok |-> TRUE, value |-> [status |-> "error", data |-> ""]]
    [] OTHER -> [ok |-> FALSE, value |-> NoValue]

(***************************************************************************)
(* State of one makeApiRequest call.                                       *)
(***************************************************************************)
VARIABLES
  pc,           \* "idle", "awaitFetch", "awaitJson", "sleepRetry",
                \* "sleepCatch", "done"
  attempt,      \* the loop variable
  calls,        \* number of fetchFn calls issued
  suspensions,  \* number of setTimeout suspensions started
  response,     \* the response of the current attempt
  delay,        \* the delay handed to setTimeout
  result,       \* how the returned promise settled
  diag,         \* last console.error diagnostic
  outcomes,     \* what each completed attempt received
  slept,        \* milliseconds the call has spent suspended so far
  input,        \* argument of the function or handler under study
  output,       \* what that function or handler returned
  batch,        \* compare_prices: the codes still to fetch and the results
  parked        \* the locals of a second makeApiRequest call while the
                \* first one runs

\* The state outside one makeApiRequest call.
aux == <<slept, input, output, batch, parked>>

vars ==
  <<pc, attempt, calls, suspensions, response, delay, result, diag, outcomes,
    slept, input, output, batch, parked>>

NoResponse == [status |-> 0, retryAfter |-> Absent, body |-> ""]

Pending == [kind |-> "pending", value |-> NoValue]
Null == [kind |-> "null", value |-> NoValue]
Value(v) == [kind |-> "value", value |-> v]
Thrown == [kind |-> "thrown", value |-> NoValue]

\* No function, handler or batch is under study.
NoInput == <<>>
NoOutput == [kind |-> "none", text |-> <<>>]
NoBatch == <<>>
NoParked == <<>>

\* makeApiRequest has not been called yet.
FetcherIdle ==
  /\ pc = "idle"
  /\ attempt = 0
  /\ calls = 0
  /\ suspensions = 0
  /\ response = NoResponse
  /\ delay = NoDelay
  /\ result = Pending
  /\ diag = "none"
  /\ outcomes = <<>>

Init ==
  /\ FetcherIdle
  /\ slept = 0
  /\ input = NoInput
  /\ output = NoOutput
  /\ batch = NoBatch
  /\ parked = NoParked

(***************************************************************************)
(* The branches of the loop body, lines 298-343.                           *)
(***************************************************************************)
\* A variant of response.ok that accepts 200 only.
IsOk_Only200(s) == s = 200

\* response.ok
IsOk(s) == s >= 200 /\ s <= 299

\* Variants of the retry condition: the bound compared with <=, every
\* error status retried, and only 429 retried.
ShouldRetry_Inclusive(s, n) == (s = 429 \/ s >= 500) /\ n <= maxRetries
ShouldRetry_AnyError(s, n) == (s = 429 \/ s >= 400) /\ n < maxRetries
ShouldRetry_Only429(s, n) == s = 429 /\ n < maxRetries

\* Lines 314-317.
ShouldRetry(s, n) == (s = 429 \/ s >= 500) /\ n < maxRetries

\* A variant of the delay that does not clamp the hint.
RetryDelay_NoClamp(h, n) ==
  IF Truthy(h) THEN Times(ParseInt(h.text), Num(1000))
  ELSE Num(MathPow(2, n) * 1000)

\* Lines 318-321.
RetryDelay(h, n) ==
  IF Truthy(h) THEN Times(MathMin(ParseInt(h.text), Num(60)), Num(1000))
  ELSE Num(MathPow(2, n) * 1000)

\* Line 340.
BackoffDelay(n) == Num(MathPow(2, n) * 1000)

\* Variants of the catch block: the last fault is rethrown; one retry fewer.
CatchBlock_Rethrow(n) ==
  IF n = maxRetries
  THEN /\ pc' = "done"
       /\ result' = Thrown
       /\ diag' = "exhausted"
       /\ UNCHANGED <<delay, suspensions>>
  ELSE /\ pc' = "sleepCatch"
       /\ delay' = BackoffDelay(n)
       /\ suspensions' = suspensions + 1
       /\ UNCHANGED <<result, diag>>

CatchBlock_OneFewer(n) ==
  IF n >= maxRetries - 1
  THEN /\ pc' = "done"
       /\ result' = Null
       /\ diag' = "exhausted"
       /\ UNCHANGED <<delay, suspensions>>
  ELSE /\ pc' = "sleepCatch"
       /\ delay' = BackoffDelay(n)
       /\ suspensions' = suspensions + 1
       /\ UNCHANGED <<result, diag>>

\* A variant of the catch block that keeps the delay of an earlier retry.
CatchBlock_ReusesHint(n) ==
  IF n = maxRetries
  THEN /\ pc' = "done"
       /\ result' = Null
       /\ diag' = "exhausted"
       /\ UNCHANGED <<delay, suspensions>>
  ELSE /\ pc' = "sleepCatch"
       /\ delay' = IF delay.kind = "none" THEN BackoffDelay(n) ELSE delay
       /\ suspensions' = suspensions + 1
       /\ UNCHANGED <<result, diag>>

\* Lines 331-342: the catch block, entered when fetchFn or response.json()
\* rejects at attempt n.
CatchBlock(n) ==
  IF n = maxRetries
  THEN /\ pc' = "done"
       /\ result' = Null
       /\ diag' = "exhausted"
       /\ UNCHANGED <<delay, suspensions>>
  ELSE /\ pc' = "sleepCatch"
       /\ delay' = BackoffDelay(n)
       /\ suspensions' = suspensions + 1
       /\ UNCHANGED <<result, diag>>

\* A variant of the response handling without the 401 branch, retrying every
\* error status.
HandleResponse_Retry401(resp, n) ==
  IF IsOk(resp.status)
  THEN /\ pc' = "awaitJson"
       /\ UNCHANGED <<result, diag, delay, suspensions>>
  ELSE IF ShouldRetry_AnyError(resp.status, n)
  THEN /\ pc' = "sleepRetry"
       /\ delay' = RetryDelay(resp.retryAfter, n)
       /\ suspensions' = suspensions + 1
       /\ UNCHANGED <<result, diag>>
  ELSE /\ pc' = "done"
       /\ result' = Null
       /\ diag' = "http"
       /\ UNCHANGED <<delay, suspensions>>

\* Lines 302-330: what the try block does with a response at attempt n.
HandleResponse(resp, n) ==
  IF IsOk(resp.status)
  THEN /\ pc' = "awaitJson"
       /\ UNCHANGED <<result, diag, delay, suspensions>>
  ELSE IF resp.status = 401
  THEN /\ pc' = "done"
       /\ result' = Null
       /\ diag' = "auth"
       /\ UNCHANGED <<delay, suspensions>>
  ELSE IF ShouldRetry(resp.status, n)
  THEN /\ pc' = "sleepRetry"
       /\ delay' = RetryDelay(resp.retryAfter, n)
       /\ suspensions' = suspensions + 1
       /\ UNCHANGED <<result, diag>>
  ELSE /\ pc' = "done"
       /\ result' = Null
       /\ diag' = "http"
       /\ UNCHANGED <<delay, suspensions>>

\* Lines 298-300 and 345: the loop test with the loop variable at n, then
\* the next fetchFn call, or the return after the loop.
LoopHead(n) ==
  /\ attempt' = n
  /\ IF n <= maxRetries
     THEN /\ pc' = "awaitFetch"
          /\ calls' = calls + 1
          /\ response' = NoResponse
          /\ UNCHANGED result
     ELSE /\ pc' = "done"
          /\ result' = Null
          /\ UNCHANGED <<calls, response>>

(***************************************************************************)
(* What an attempt received, as the caller of fetchFn sees it: the status  *)
(* and, for a status in 200..299, the body.                                *)
(***************************************************************************)
Received(resp) ==
  [kind |-> "response", status |-> resp.status,
   body |-> IF resp.status \in 200..299 THEN resp.body ELSE ""]

TransportError == [kind |-> "transport", status |-> 0, body |-> ""]

(***************************************************************************)
(* Actions: one per continuation of the async function.                    *)
(***************************************************************************)
\* makeApiRequest is called: lines 287-300 up to the first await.
Call ==
  /\ pc = "idle"
  /\ LoopHead(0)
  /\ UNCHANGED <<suspensions, delay, diag, outcomes>>
  /\ UNCHANGED aux

\* fetchFn resolves with a response: lines 302-330.
FetchResolves ==
  /\ pc = "awaitFetch"
  /\ \E s \in Statuses, h \in RetryAfterValues, b \in Bodies :
       LET resp == [status |-> s, retryAfter |-> h, body |-> b]
       IN /\ response' = resp
          /\ HandleResponse(resp, attempt)
          /\ outcomes' = IF pc' = "awaitJson" THEN outcomes
                         ELSE Append(outcomes, Received(resp))
  /\ UNCHANGED <<attempt, calls>>
  /\ UNCHANGED aux

\* fetchFn rejects: the catch block.
FetchRejects ==
  /\ pc = "awaitFetch"
  /\ CatchBlock(attempt)
  /\ outcomes' = Append(outcomes, TransportError)
  /\ UNCHANGED <<attempt, calls, response>>
  /\ UNCHANGED aux

\* A variant of the success path that drops the parsed value.
JsonSettles_NoReturn ==
  /\ pc = "awaitJson"
  /\ LET parsed == JsonParse(response.body)
     IN IF parsed.ok
        THEN /\ pc' = "done"
             /\ result' = Null
             /\ diag' = "http"
             /\ UNCHANGED <<delay, suspensions>>
        ELSE CatchBlock(attempt)
  /\ outcomes' = Append(outcomes, Received(response))
  /\ UNCHANGED <<attempt, calls, response>>
  /\ UNCHANGED aux

\* A variant in which the SyntaxError of response.json() is not caught.
JsonSettles_ParseEscapes ==
  /\ pc = "awaitJson"
  /\ LET parsed == JsonParse(response.body)
     IN IF parsed.ok
        THEN /\ pc' = "done"
             /\ result' = Value(parsed.value)
             /\ UNCHANGED <<diag, delay, suspensions>>
        ELSE /\ pc' = "done"
             /\ result' = Thrown
             /\ UNCHANGED <<diag, delay, suspensions>>
  /\ outcomes' = Append(outcomes, Received(response))
  /\ UNCHANGED <<attempt, calls, response>>
  /\ UNCHANGED aux

\* response.json() settles: line 303 returns the parsed value, or the
\* SyntaxError is caught by the catch block.
JsonSettles ==
  /\ pc = "awaitJson"
  /\ LET parsed == JsonParse(response.body)
     IN IF parsed.ok
        THEN /\ pc' = "done"
             /\ result' = Value(parsed.value)
             /\ UNCHANGED <<diag, delay, suspensions>>
        ELSE CatchBlock(attempt)
  /\ outcomes' = Append(outcomes, Received(response))
  /\ UNCHANGED <<attempt, calls, response>>
  /\ UNCHANGED aux

\* A variant in which the promise awaited in the catch block is never
\* resolved.
TimerFires_RetryOnly ==
  /\ pc = "sleepRetry"
  /\ LoopHead(attempt + 1)
  /\ UNCHANGED <<suspensions, delay, diag, outcomes>>
  /\ UNCHANGED aux

\* The retry timer fires: the loop variable is incremented and the loop
\* goes round (line 298).
TimerFires ==
  /\ pc \in {"sleepRetry", "sleepCatch"}
  /\ LoopHead(attempt + 1)
  /\ UNCHANGED <<suspensions, delay, diag, outcomes>>
  /\ UNCHANGED aux

Next ==
  \/ Call
  \/ FetchResolves
  \/ FetchRejects
  \/ JsonSettles
  \/ TimerFires

Spec == Init /\ [][Next]_vars

TypeOK ==
  /\ pc \in {"idle", "awaitFetch", "awaitJson", "sleepRetry", "sleepCatch",
             "done"}
  /\ attempt \in Nat
  /\ calls \in Nat
  /\ suspensions \in Nat
  /\ result.kind \in {"pending", "value", "null", "thrown"}
  /\ delay.kind \in {"none", "num", "nan"}

(***************************************************************************)
(* Vocabulary of the properties, stated on what the attempts received.     *)
(***************************************************************************)
Min(a, b) == IF a <= b THEN a ELSE b

RetryableStatus(s) == s = 429 \/ s >= 500

GotRetryable(o) == o.kind = "response" /\ RetryableStatus(o.status)

GotValidJson(o) ==
  o.kind = "response" /\ o.status \in 200..299 /\ JsonParse(o.body).ok

GotTerminalError(o) ==
  /\ o.kind = "response"
  /\ o.status \notin 200..299
  /\ o.status # 429
  /\ o.status < 500

ParsedBody(o) == Value(JsonParse(o.body).value)

\* C1: makeApiRequest never throws or rejects: once the call has completed
\* it has returned a parsed JSON value or null, whatever the attempts
\* received (any status, a transport error, a body that is not JSON).
C1_NoFaultEscapes ==
  /\ result.kind # "thrown"
  /\ pc = "done" => result.kind \in {"value", "null"}
  /\ pc # "done" => result = Pending

C1_Witness ==
  /\ pc = "done"
  /\ result = Null
  /\ Len(outcomes) = maxRetries + 1
  /\ outcomes[1] = TransportError
  /\ outcomes[maxRetries + 1].kind = "response"
  /\ outcomes[maxRetries + 1].body = BodyHtml

\* C2: the attempt counter stays in 0..maxRetries and at most
\* maxRetries + 1 fetchFn calls are issued, whatever mix of transport
\* errors, 429 and 5xx responses the attempts receive.
C2_AttemptBounds ==
  /\ attempt \in 0..maxRetries
  /\ calls <= maxRetries + 1
  /\ calls <= attempt + 1

C2_Witness ==
  /\ pc = "done"
  /\ calls = maxRetries + 1
  /\ attempt = maxRetries
  /\ \E i, j, k \in 1..Len(outcomes) :
       /\ outcomes[i] = TransportError
       /\ outcomes[j].status = 429
       /\ outcomes[k].status >= 500

\* C3: a 2xx response with a valid JSON body on the first attempt makes the
\* call return exactly the parsed body, after one fetchFn call and no
\* suspension.
C3_FirstAttemptSuccess ==
  (Len(outcomes) >= 1 /\ GotValidJson(outcomes[1])) =>
    /\ pc = "done"
    /\ result = ParsedBody(outcomes[1])
    /\ calls = 1
    /\ suspensions = 0
    /\ Len(outcomes) = 1

C3_Witness ==
  /\ pc = "done"
  /\ Len(outcomes) = 1
  /\ outcomes[1].status = 204
  /\ result.kind = "value"
  /\ result.value.status = "error"
  /\ calls = 1

\* C4: a 401 at any attempt ends the call at once with null: no further
\* fetchFn call and no suspension follow it.
C4_UnauthorizedIsTerminal ==
  \A i \in 1..Len(outcomes) :
    (outcomes[i].kind = "response" /\ outcomes[i].status = 401) =>
      /\ pc = "done"
      /\ result = Null
      /\ Len(outcomes) = i
      /\ calls = i
      /\ suspensions = i - 1

C4_Witness ==
  /\ pc = "done"
  /\ Len(outcomes) = 3
  /\ outcomes[3].status = 401
  /\ attempt = 2
  /\ result = Null

\* C5: a status that is not 2xx, not 429 and below 500 ends the call at that
\* attempt with null: no retry, no further fetchFn call, no suspension.
C5_ClientErrorIsTerminal ==
  \A i \in 1..Len(outcomes) :
    GotTerminalError(outcomes[i]) =>
      /\ pc = "done"
      /\ result = Null
      /\ Len(outcomes) = i
      /\ calls = i
      /\ suspensions = i - 1

C5_Witness ==
  /\ pc = "done"
  /\ Len(outcomes) = 2
  /\ outcomes[1].status = 503
  /\ outcomes[2].status = 404
  /\ result = Null
  /\ calls = 2

\* C6: when every attempt receives a 429 or a status >= 500, the call goes
\* on until maxRetries + 1 fetchFn calls are made and then returns null.
C6_RetryableExhausts ==
  (\A i \in 1..Len(outcomes) : GotRetryable(outcomes[i])) =>
    /\ pc = "done" <=> Len(outcomes) = maxRetries + 1
    /\ pc = "done" => result = Null /\ calls = maxRetries + 1

C6_Witness ==
  /\ pc = "done"
  /\ Len(outcomes) = maxRetries + 1
  /\ \A i \in 1..Len(outcomes) : GotRetryable(outcomes[i])
  /\ outcomes[1].status = 429
  /\ outcomes[maxRetries + 1].status = 500
  /\ result = Null

\* C7: when every attempt fails with a transport error, the call goes on
\* until maxRetries + 1 fetchFn calls are made and then returns null.
C7_TransportExhausts ==
  (\A i \in 1..Len(outcomes) : outcomes[i] = TransportError) =>
    /\ pc = "done" <=> Len(outcomes) = maxRetries + 1
    /\ pc = "done" => result = Null /\ calls = maxRetries + 1

C7_Witness ==
  /\ pc = "done"
  /\ Len(outcomes) = maxRetries + 1
  /\ \A i \in 1..Len(outcomes) : outcomes[i] = TransportError
  /\ calls = maxRetries + 1

\* C8: k retryable failures (429 or 5xx), 1 <= k <= maxRetries, followed by
\* a 2xx response with valid JSON make the call return that payload after
\* exactly k + 1 fetchFn calls.
C8_SuccessAfterRetries ==
  \A k \in 1..maxRetries :
    ( /\ Len(outcomes) >= k + 1
      /\ \A i \in 1..k : GotRetryable(outcomes[i])
      /\ GotValidJson(outcomes[k + 1]) ) =>
        /\ pc = "done"
        /\ result = ParsedBody(outcomes[k + 1])
        /\ calls = k + 1
        /\ Len(outcomes) = k + 1

C8_Witness ==
  /\ pc = "done"
  /\ Len(outcomes) = maxRetries + 1
  /\ \A i \in 1..maxRetries : GotRetryable(outcomes[i])
  /\ GotValidJson(outcomes[maxRetries + 1])
  /\ result.kind = "value"
  /\ calls = maxRetries + 1

\* C9: a 429 or 5xx at attempt n < maxRetries whose Retry-After holds the
\* integer h (h >= 0 seconds) suspends the call for min(h, 60) * 1000 ms.
C9_RetryAfterClamped ==
  \A h \in HintSeconds :
    ( /\ h >= 0
      /\ RetryableStatus(response.status)
      /\ attempt < maxRetries
      /\ response.retryAfter = Present(IntText(h)) ) =>
        /\ pc = "sleepRetry"
        /\ delay = Num(Min(h, 60) * 1000)

C9_Witness ==
  /\ pc = "sleepRetry"
  /\ response.status = 429
  /\ response.retryAfter = Present(IntText(MaxHint))
  /\ delay = Num(60000)

\* C10: a 429 or 5xx at attempt n < maxRetries whose Retry-After is absent
\* or does not parse as an integer suspends the call for 2^n seconds.
C10_UnparsableFallsBack ==
  ( /\ RetryableStatus(response.status)
    /\ attempt < maxRetries
    /\ \/ ~response.retryAfter.present
       \/ ParseInt(response.retryAfter.text) = NaN ) =>
      /\ pc = "sleepRetry"
      /\ delay = Num(MathPow(2, attempt) * 1000)

GotInvalidJson(o) ==
  o.kind = "response" /\ o.status \in 200..299 /\ ~JsonParse(o.body).ok

\* C11 as stated: a 2xx response whose body is not JSON ends the call at
\* that attempt and the parse fault propagates to the caller.
C11_ParseFaultPropagates ==
  \A i \in 1..Len(outcomes) :
    GotInvalidJson(outcomes[i]) =>
      /\ pc = "done"
      /\ result = Thrown
      /\ Len(outcomes) = i

\* C11 as amended: a 2xx response whose body is not JSON is handled by the
\* catch block like a transport error: before the last attempt the call
\* suspends for 2^n seconds and goes on to the next attempt, at the last
\* attempt it returns null, and the fault never reaches the caller.
C11_ParseFaultCaught ==
  \A i \in 1..Len(outcomes) :
    GotInvalidJson(outcomes[i]) =>
      /\ result.kind # "thrown"
      /\ calls >= i
      /\ i <= maxRetries =>
           /\ pc = "done" => Len(outcomes) > i
           /\ (Len(outcomes) = i /\ calls = i) =>
                /\ pc = "sleepCatch"
                /\ delay = Num(MathPow(2, i - 1) * 1000)
      /\ i = maxRetries + 1 => pc = "done" /\ result = Null

C11_Witness ==
  /\ pc = "done"
  /\ Len(outcomes) = 2
  /\ GotInvalidJson(outcomes[1])
  /\ GotValidJson(outcomes[2])
  /\ result.kind = "value"
  /\ calls = 2
  /\ suspensions = 1

(***************************************************************************)
(* The suspension clock.  SpecTimed is the fetcher with the time spent in  *)
(* setTimeout added up in slept; the server's answers are drawn from a     *)
(* smaller set so that every combination of delays is covered.            *)
(***************************************************************************)
\* The longest exponential backoff of one call: 1 + 2 + 4 seconds.
BackoffTotalMs == (MathPow(2, 0) + MathPow(2, 1) + MathPow(2, 2)) * 1000

\* The clamp of one Retry-After hint, in milliseconds.
HintCapMs == 60 * 1000

TimedStatuses == {200, 404, 429, 503}
TimedBodies == {BodySuccess, BodyHtml}

\* How long setTimeout(resolve, d) waits under Node.js: a delay that is NaN
\* or below 1 is set to 1 ms.
SleepMs(d) == IF d.kind # "num" \/ d.v < 1 THEN 1 ELSE d.v

\* fetchFn resolves with a response: lines 302-330.
TimedFetchResolves ==
  /\ pc = "awaitFetch"
  /\ \E s \in TimedStatuses, h \in RetryAfterValues, b \in TimedBodies :
       LET resp == [status |-> s, retryAfter |-> h, body |-> b]
       IN /\ response' = resp
          /\ HandleResponse(resp, attempt)
          /\ outcomes' = IF pc' = "awaitJson" THEN outcomes
                         ELSE Append(outcomes, Received(resp))
  /\ UNCHANGED <<attempt, calls>>
  /\ UNCHANGED aux

\* A variant in which the next attempt does not wait for the current one.
TimedTimerFires_Eager ==
  /\ pc \in {"awaitFetch", "sleepRetry", "sleepCatch"}
  /\ LoopHead(attempt + 1)
  /\ slept' = slept + SleepMs(delay)
  /\ UNCHANGED <<suspensions, delay, diag, outcomes>>
  /\ UNCHANGED <<input, output, batch, parked>>

\* The retry timer fires after the time setTimeout waited (lines 322, 341).
TimedTimerFires ==
  /\ pc \in {"sleepRetry", "sleepCatch"}
  /\ LoopHead(attempt + 1)
  /\ slept' = slept + SleepMs(delay)
  /\ UNCHANGED <<suspensions, delay, diag, outcomes>>
  /\ UNCHANGED <<input, output, batch, parked>>

NextTimed ==
  \/ Call
  \/ TimedFetchResolves
  \/ FetchRejects
  \/ JsonSettles
  \/ TimedTimerFires

SpecTimed == Init /\ [][NextTimed]_vars

LowerChars ==
  <<"a", "b", "c", "d", "e", "f", "g", "h", "i", "j", "k", "l", "m",
    "n", "o", "p", "q", "r", "s", "t", "u", "v", "w", "x", "y", "z">>

UpperChars ==
  <<"A", "B", "C", "D", "E", "F", "G", "H", "I", "J", "K", "L", "M",
    "N", "O", "P", "Q", "R", "S", "T", "U", "V", "W", "X", "Y", "Z">>

ToLowerChar(c) ==
  IF \E i \in 1..26 : UpperChars[i] = c
  THEN LowerChars[CHOOSE i \in 1..26 : UpperChars[i] = c]
  ELSE c

ToUpperChar(c) ==
  IF \E i \in 1..26 : LowerChars[i] = c
  THEN UpperChars[CHOOSE i \in 1..26 : LowerChars[i] = c]
  ELSE c

RECURSIVE ToLowerCase(_)
ToLowerCase(s) ==
  IF s = <<>> THEN <<>> ELSE <<ToLowerChar(Head(s))>> \o ToLowerCase(Tail(s))

RECURSIVE ToUpperCase(_)
ToUpperCase(s) ==
  IF s = <<>> THEN <<>> ELSE <<ToUpperChar(Head(s))>> \o ToUpperCase(Tail(s))

\* White space as String.prototype.trim sees it.
IsWhiteSpace(c) == c \in {" ", "\t", "\n", "\r"}

RECURSIVE TrimStart(_)
TrimStart(s) ==
  IF s # <<>> /\ IsWhiteSpace(Head(s)) THEN TrimStart(Tail(s)) ELSE s

RECURSIVE TrimEnd(_)
TrimEnd(s) ==
  IF s # <<>> /\ IsWhiteSpace(s[Len(s)])
  THEN TrimEnd(SubSeq(s, 1, Len(s) - 1))
  ELSE s

Trim(s) == TrimEnd(TrimStart(s))

\* s.includes(sub)
Includes(s, sub) ==
  \E i \in 0..(Len(s) - Len(sub)) : SubSeq(s, i + 1, i + Len(sub)) = sub

\* The commodity codes, lines 115-134.
BRENT_CRUDE_USD ==
  <<"B", "R", "E", "N", "T", "_", "C", "R", "U", "D", "E", "_", "U", "S", "D">>

WTI_USD ==
  <<"W", "T", "I", "_", "U", "S", "D">>

URALS_CRUDE_USD ==
  <<"U", "R", "A", "L", "S", "_", "C", "R", "U", "D", "E", "_", "U", "S", "D">>

DUBAI_CRUDE_USD ==
  <<"D", "U", "B", "A", "I", "_", "C", "R", "U", "D", "E", "_", "U", "S", "D">>

NATURAL_GAS_USD ==
  <<"N", "A", "T", "U", "R", "A", "L", "_", "G", "A", "S", "_", "U", "S", "D">>

NATURAL_GAS_GBP ==
  <<"N", "A", "T", "U", "R", "A", "L", "_", "G", "A", "S", "_", "G", "B", "P">>

DUTCH_TTF_EUR ==
  <<"D", "U", "T", "C", "H", "_", "T", "T", "F", "_", "E", "U", "R">>

COAL_USD ==
  <<"C", "O", "A", "L", "_", "U", "S", "D">>

NEWCASTLE_COAL_USD ==
  <<"N", "E", "W", "C", "A", "S", "T", "L", "E", "_", "C", "O", "A", "L", "_", "U", "S", "D">>

DIESEL_USD ==
  <<"D", "I", "E", "S", "E", "L", "_", "U", "S", "D">>

GASOLINE_USD ==
  <<"G", "A", "S", "O", "L", "I", "N", "E", "_", "U", "S", "D">>

GASOLINE_RBOB_USD ==
  <<"G", "A", "S", "O", "L", "I", "N", "E", "_", "R", "B", "O", "B", "_", "U", "S", "D">>

JET_FUEL_USD ==
  <<"J", "E", "T", "_", "F", "U", "E", "L", "_", "U", "S", "D">>

HEATING_OIL_USD ==
  <<"H", "E", "A", "T", "I", "N", "G", "_", "O", "I", "L", "_", "U", "S", "D">>

GOLD_USD ==
  <<"G", "O", "L", "D", "_", "U", "S", "D">>

EU_CARBON_EUR ==
  <<"E", "U", "_", "C", "A", "R", "B", "O", "N", "_", "E", "U", "R">>

EUR_USD ==
  <<"E", "U", "R", "_", "U", "S", "D">>

GBP_USD ==
  <<"G", "B", "P", "_", "U", "S", "D">>

COMMODITY_CODES ==
  <<BRENT_CRUDE_USD,
    WTI_USD,
    URALS_CRUDE_USD,
    DUBAI_CRUDE_USD,
    NATURAL_GAS_USD,
    NATURAL_GAS_GBP,
    DUTCH_TTF_EUR,
    COAL_USD,
    NEWCASTLE_COAL_USD,
    DIESEL_USD,
    GASOLINE_USD,
    GASOLINE_RBOB_USD,
    JET_FUEL_USD,
    HEATING_OIL_USD,
    GOLD_USD,
    EU_CARBON_EUR,
    EUR_USD,
    GBP_USD>>

\* The alias table in insertion order, lines 25-90.
\* A variant of the table whose values are spelled in lower case.
Alias_LowerCode(a, c) == [alias |-> a, code |-> ToLowerCase(c)]

Alias(a, c) == [alias |-> a, code |-> c]

COMMODITY_ALIASES ==
  <<Alias(<<"b", "r", "e", "n", "t">>,
          BRENT_CRUDE_USD),
    Alias(<<"b", "r", "e", "n", "t", " ", "o", "i", "l">>,
          BRENT_CRUDE_USD),
    Alias(<<"b", "r", "e", "n", "t", " ", "c", "r", "u", "d", "e">>,
          BRENT_CRUDE_USD),
    Alias(<<"b", "r", "e", "n", "t", " ", "c", "r", "u", "d", "e", " ", "o", "i", "l">>,
          BRENT_CRUDE_USD),
    Alias(<<"n", "o", "r", "t", "h", " ", "s", "e", "a", " ", "o", "i", "l">>,
          BRENT_CRUDE_USD),
    Alias(<<"w", "t", "i">>,
          WTI_USD),
    Alias(<<"w", "t", "i", " ", "o", "i", "l">>,
          WTI_USD),
    Alias(<<"w", "t", "i", " ", "c", "r", "u", "d", "e">>,
          WTI_USD),
    Alias(<<"w", "e", "s", "t", " ", "t", "e", "x", "a", "s">>,
          WTI_USD),
    Alias(<<"u", "s", " ", "o", "i", "l">>,
          WTI_USD),
    Alias(<<"a", "m", "e", "r", "i", "c", "a", "n", " ", "o", "i", "l">>,
          WTI_USD),
    Alias(<<"r", "u", "s", "s", "i", "a", "n", " ", "o", "i", "l">>,
          URALS_CRUDE_USD),
    Alias(<<"u", "r", "a", "l", "s">>,
          URALS_CRUDE_USD),
    Alias(<<"u", "r", "a", "l", "s", " ", "c", "r", "u", "d", "e">>,
          URALS_CRUDE_USD),
    Alias(<<"d", "u", "b", "a", "i">>,
          DUBAI_CRUDE_USD),
    Alias(<<"d", "u", "b", "a", "i", " ", "c", "r", "u", "d", "e">>,
          DUBAI_CRUDE_USD),
    Alias(<<"d", "u", "b", "a", "i", " ", "o", "i", "l">>,
          DUBAI_CRUDE_USD),
    Alias(<<"m", "i", "d", "d", "l", "e", " ", "e", "a", "s", "t", " ", "o", "i", "l">>,
          DUBAI_CRUDE_USD),
    Alias(<<"n", "a", "t", "u", "r", "a", "l", " ", "g", "a", "s">>,
          NATURAL_GAS_USD),
    Alias(<<"g", "a", "s">>,
          NATURAL_GAS_USD),
    Alias(<<"n", "a", "t", " ", "g", "a", "s">>,
          NATURAL_GAS_USD),
    Alias(<<"h", "e", "n", "r", "y", " ", "h", "u", "b">>,
          NATURAL_GAS_USD),
    Alias(<<"u", "s", " ", "g", "a", "s">>,
          NATURAL_GAS_USD),
    Alias(<<"u", "s", " ", "n", "a", "t", "u", "r", "a", "l", " ", "g", "a", "s">>,
          NATURAL_GAS_USD),
    Alias(<<"u", "k", " ", "g", "a", "s">>,
          NATURAL_GAS_GBP),
    Alias(<<"u", "k", " ", "n", "a", "t", "u", "r", "a", "l", " ", "g", "a", "s">>,
          NATURAL_GAS_GBP),
    Alias(<<"b", "r", "i", "t", "i", "s", "h", " ", "g", "a", "s">>,
          NATURAL_GAS_GBP),
    Alias(<<"e", "u", "r", "o", "p", "e", "a", "n", " ", "g", "a", "s">>,
          DUTCH_TTF_EUR),
    Alias(<<"t", "t", "f">>,
          DUTCH_TTF_EUR),
    Alias(<<"d", "u", "t", "c", "h", " ", "t", "t", "f">>,
          DUTCH_TTF_EUR),
    Alias(<<"e", "u", " ", "g", "a", "s">>,
          DUTCH_TTF_EUR),
    Alias(<<"c", "o", "a", "l">>,
          COAL_USD),
    Alias(<<"t", "h", "e", "r", "m", "a", "l", " ", "c", "o", "a", "l">>,
          COAL_USD),
    Alias(<<"n", "e", "w", "c", "a", "s", "t", "l", "e", " ", "c", "o", "a", "l">>,
          NEWCASTLE_COAL_USD),
    Alias(<<"a", "u", "s", "t", "r", "a", "l", "i", "a", "n", " ", "c", "o", "a", "l">>,
          NEWCASTLE_COAL_USD),
    Alias(<<"d", "i", "e", "s", "e", "l">>,
          DIESEL_USD),
    Alias(<<"d", "i", "e", "s", "e", "l", " ", "f", "u", "e", "l">>,
          DIESEL_USD),
    Alias(<<"g", "a", "s", "o", "l", "i", "n", "e">>,
          GASOLINE_USD),
    Alias(<<"p", "e", "t", "r", "o", "l">>,
          GASOLINE_USD),
    Alias(<<"g", "a", "s", " ", "f", "u", "e", "l">>,
          GASOLINE_USD),
    Alias(<<"r", "b", "o", "b">>,
          GASOLINE_RBOB_USD),
    Alias(<<"r", "b", "o", "b", " ", "g", "a", "s", "o", "l", "i", "n", "e">>,
          GASOLINE_RBOB_USD),
    Alias(<<"j", "e", "t", " ", "f", "u", "e", "l">>,
          JET_FUEL_USD),
    Alias(<<"a", "v", "i", "a", "t", "i", "o", "n", " ", "f", "u", "e", "l">>,
          JET_FUEL_USD),
    Alias(<<"k", "e", "r", "o", "s", "e", "n", "e">>,
          JET_FUEL_USD),
    Alias(<<"h", "e", "a", "t", "i", "n", "g", " ", "o", "i", "l">>,
          HEATING_OIL_USD),
    Alias(<<"g", "o", "l", "d">>,
          GOLD_USD),
    Alias(<<"c", "a", "r", "b", "o", "n">>,
          EU_CARBON_EUR),
    Alias(<<"e", "u", " ", "c", "a", "r", "b", "o", "n">>,
          EU_CARBON_EUR),
    Alias(<<"c", "a", "r", "b", "o", "n", " ", "c", "r", "e", "d", "i", "t", "s">>,
          EU_CARBON_EUR),
    Alias(<<"e", "u", "r", "o">>,
          EUR_USD),
    Alias(<<"e", "u", "r", " ", "u", "s", "d">>,
          EUR_USD),
    Alias(<<"p", "o", "u", "n", "d">>,
          GBP_USD),
    Alias(<<"g", "b", "p", " ", "u", "s", "d">>,
          GBP_USD),
    Alias(<<"s", "t", "e", "r", "l", "i", "n", "g">>,
          GBP_USD)>>

\* JavaScript values a lookup in the alias table can give.
Str(t) == [kind |-> "string", text |-> t]
Undefined == [kind |-> "undefined", text |-> <<>>]
FunctionValue == [kind |-> "function", text |-> <<>>]
ObjectValue == [kind |-> "object", text |-> <<>>]

\* The properties COMMODITY_ALIASES, an object literal, inherits from
\* Object.prototype.
ObjectPrototype ==
  {[key |-> <<"c", "o", "n", "s", "t", "r", "u", "c", "t", "o", "r">>, value |-> FunctionValue],
   [key |-> <<"_", "_", "p", "r", "o", "t", "o", "_", "_">>, value |-> ObjectValue],
   [key |-> <<"t", "o", "S", "t", "r", "i", "n", "g">>, value |-> FunctionValue],
   [key |-> <<"v", "a", "l", "u", "e", "O", "f">>, value |-> FunctionValue],
   [key |-> <<"h", "a", "s", "O", "w", "n", "P", "r", "o", "p", "e", "r", "t", "y">>, value |-> FunctionValue]}

AliasIndexes == 1..Len(COMMODITY_ALIASES)

\* A variant of the lookup that finds nothing.
AliasLookup_Off(key) == Undefined

\* COMMODITY_ALIASES[key], line 230: an own property, an inherited one, or
\* undefined.
AliasLookup(key) ==
  IF \E i \in AliasIndexes : COMMODITY_ALIASES[i].alias = key
  THEN Str(COMMODITY_ALIASES[
             CHOOSE i \in AliasIndexes : COMMODITY_ALIASES[i].alias = key].code)
  ELSE IF \E p \in ObjectPrototype : p.key = key
  THEN (CHOOSE p \in ObjectPrototype : p.key = key).value
  ELSE Undefined

\* if (mapped), line 231.
TruthyValue(v) ==
  \/ v.kind \in {"function", "object"}
  \/ v.kind = "string" /\ v.text # <<>>

\* A variant of the known-code tier that returns the normalized text.
CodePassthrough_NoUpper(normalized) ==
  IF \E i \in 1..Len(COMMODITY_CODES) :
       COMMODITY_CODES[i] = ToUpperCase(normalized)
  THEN Str(normalized)
  ELSE Undefined

\* Lines 221-227: the known-code tier.
CodePassthrough(normalized) ==
  IF \E i \in 1..Len(COMMODITY_CODES) :
       COMMODITY_CODES[i] = ToUpperCase(normalized)
  THEN Str(ToUpperCase(normalized))
  ELSE Undefined

\* Line 237: the test of one table entry.
FuzzyTest(normalized, alias) ==
  Includes(normalized, alias) \/ Includes(alias, normalized)

\* A variant of the loop in which the last matching entry wins.
RECURSIVE FuzzyFrom_LastWins(_, _)
FuzzyFrom_LastWins(normalized, i) ==
  IF i > Len(COMMODITY_ALIASES) THEN Undefined
  ELSE LET later == FuzzyFrom_LastWins(normalized, i + 1)
       IN IF later # Undefined THEN later
          ELSE IF FuzzyTest(normalized, COMMODITY_ALIASES[i].alias)
          THEN Str(COMMODITY_ALIASES[i].code)
          ELSE Undefined

\* Lines 236-240: the loop over Object.entries(COMMODITY_ALIASES) from
\* entry i on.
RECURSIVE FuzzyFrom(_, _)
FuzzyFrom(normalized, i) ==
  IF i > Len(COMMODITY_ALIASES) THEN Undefined
  ELSE IF FuzzyTest(normalized, COMMODITY_ALIASES[i].alias)
  THEN Str(COMMODITY_ALIASES[i].code)
  ELSE FuzzyFrom(normalized, i + 1)

\* Line 218.
Normalize(in) == Trim(ToLowerCase(in))

\* Lines 217-244.
resolveCommodityCode(in) ==
  LET normalized == Normalize(in)
      known == CodePassthrough(normalized)
      mapped == AliasLookup(normalized)
      fuzzy == FuzzyFrom(normalized, 1)
  IN IF known # Undefined THEN known
     ELSE IF TruthyValue(mapped) THEN mapped
     ELSE IF fuzzy # Undefined THEN fuzzy
     ELSE Str(BRENT_CRUDE_USD)

(***************************************************************************)
(* The inputs resolveCommodityCode is applied to.                          *)
(***************************************************************************)
\* Longest fragment of an alias or code that is used as an input.
MaxFragment == 4

AliasKeys == {COMMODITY_ALIASES[i].alias : i \in AliasIndexes}
CodeSet == {COMMODITY_CODES[i] : i \in 1..Len(COMMODITY_CODES)}

Capitalize(s) ==
  IF s = <<>> THEN s ELSE <<ToUpperChar(Head(s))>> \o ToLowerCase(Tail(s))

Fragments(s) ==
  {SubSeq(s, i, j) : i \in 1..Len(s), j \in 1..Len(s)}

ShortFragments(S) ==
  UNION {{f \in Fragments(s) : Len(f) >= 1 /\ Len(f) <= MaxFragment} : s \in S}

OneWordKeys == {k \in AliasKeys : ~Includes(k, <<" ">>)}

LiteralInputs ==
  {<<>>,
   <<" ", " ", " ">>,
   <<"!", "!", "!">>,
   <<"u", "n", "k", "n", "o", "w", "n", "_", "c", "o", "m", "m", "o", "d", "i", "t", "y", "_", "x", "y", "z">>,
   <<"c", "o", "n", "s", "t", "r", "u", "c", "t", "o", "r">>,
   <<"_", "_", "p", "r", "o", "t", "o", "_", "_">>,
   <<"t", "o", "S", "t", "r", "i", "n", "g">>,
   <<"v", "a", "l", "u", "e", "O", "f">>,
   <<"h", "a", "s", "O", "w", "n", "P", "r", "o", "p", "e", "r", "t", "y">>,
   <<"o", "i", "l">>,
   <<"c", "r", "u", "d", "e">>,
   <<"x", "y", "z">>,
   <<"b", "r", "e", "n", "t", " ", "x", "y", "z">>,
   <<"p", "r", "i", "c", "e", " ", "o", "f", " ", "d", "i", "e", "s", "e", "l", " ", "t", "o", "d", "a", "y">>,
   <<"N", "a", "t", "u", "r", "a", "l", " ", "G", "a", "s">>,
   <<" ", "W", "T", "I", "_", "U", "S", "D", " ">>,
   <<"w", "t", "i", "_", "u", "s", "d">>,
   <<"w", "t", "i", "-", "u", "s", "d">>,
   <<"u", "k">>}

ResolveInputs ==
  AliasKeys
    \cup {ToUpperCase(k) : k \in AliasKeys}
    \cup {Capitalize(k) : k \in AliasKeys}
    \cup {<<" ">> \o k \o <<" ", "\t">> : k \in AliasKeys}
    \cup {k \o <<" ", "p", "r", "i", "c", "e">> : k \in AliasKeys}
    \cup {a \o <<" ">> \o b : a \in OneWordKeys, b \in OneWordKeys}
    \cup CodeSet
    \cup {ToLowerCase(c) : c \in CodeSet}
    \cup {Capitalize(c) : c \in CodeSet}
    \cup ShortFragments(AliasKeys)
    \cup ShortFragments({ToLowerCase(c) : c \in CodeSet})
    \cup LiteralInputs

InitResolve ==
  /\ FetcherIdle
  /\ slept = 0
  /\ input \in ResolveInputs
  /\ output = NoOutput
  /\ batch = NoBatch
  /\ parked = NoParked

\* A caller applies resolveCommodityCode to its argument.
Resolve ==
  /\ output = NoOutput
  /\ output' = resolveCommodityCode(input)
  /\ UNCHANGED <<pc, attempt, calls, suspensions, response, delay, result,
                 diag, outcomes, slept, input, batch, parked>>

NextResolve == Resolve

SpecResolve == InitResolve /\ [][NextResolve]_vars

Resolved == output # NoOutput

\* The table entries that pass the fuzzy test for the normalized text n.
FuzzyMatches(n) ==
  {i \in AliasIndexes : FuzzyTest(n, COMMODITY_ALIASES[i].alias)}

\* C13: resolveCommodityCode returns, for every string, a string that is a
\* member of COMMODITY_CODES (never undefined, never another value).
C13_ResolveTotal ==
  Resolved => output.kind = "string" /\ output.text \in CodeSet

\* C14: a string that equals a member of COMMODITY_CODES case-insensitively
\* resolves to its own uppercase form, that is to that code.
C14_CodePassthrough ==
  \A c \in CodeSet :
    (Resolved /\ ToLowerCase(input) = ToLowerCase(c)) =>
      /\ output = Str(c)
      /\ output = Str(ToUpperCase(input))

C14_Witness ==
  /\ Resolved
  /\ input = Capitalize(NATURAL_GAS_GBP)
  /\ input # NATURAL_GAS_GBP
  /\ output = Str(NATURAL_GAS_GBP)

\* The code the table gives for the key k.
TableCode(k) ==
  COMMODITY_ALIASES[CHOOSE i \in AliasIndexes : COMMODITY_ALIASES[i].alias = k].code

\* C15: every key of COMMODITY_ALIASES resolves to its own table value, even
\* when an earlier entry is a substring of the key.
C15_AliasKeyExact ==
  (Resolved /\ input \in AliasKeys) => output = Str(TableCode(input))

C15_Witness ==
  /\ Resolved
  /\ input = <<"u", "k", " ", "n", "a", "t", "u", "r", "a", "l", " ", "g", "a", "s">>
  /\ \E i \in AliasIndexes :
       /\ COMMODITY_ALIASES[i].code # NATURAL_GAS_GBP
       /\ Includes(input, COMMODITY_ALIASES[i].alias)
  /\ output = Str(NATURAL_GAS_GBP)

\* C16: a string whose normalized form is not a known code, is not a key of
\* the table, contains no alias and is contained in no alias resolves to
\* BRENT_CRUDE_USD.
C16_DefaultOtherwise ==
  LET n == Trim(ToLowerCase(input))
  IN ( /\ Resolved
       /\ ToUpperCase(n) \notin CodeSet
       /\ n \notin AliasKeys
       /\ FuzzyMatches(n) = {} ) =>
         output = Str(BRENT_CRUDE_USD)

\* C20: when the normalized input is neither a known code nor a key of the
\* table, and some entry passes the fuzzy test, the result is the code of
\* the first such entry in insertion order, whatever later entries match.
C20_FirstFuzzyEntryWins ==
  LET n == Trim(ToLowerCase(input))
      M == FuzzyMatches(n)
  IN ( /\ Resolved
       /\ ToUpperCase(n) \notin CodeSet
       /\ n \notin AliasKeys
       /\ M # {} ) =>
         output = Str(COMMODITY_ALIASES[CHOOSE i \in M : \A j \in M : i <= j].code)

C20_Witness ==
  /\ Resolved
  /\ input = <<"g", "a", "s", "o", "l", "i", "n", "e", " ", "p", "r", "i", "c", "e">>
  /\ \E i, j \in FuzzyMatches(Trim(ToLowerCase(input))) :
       /\ i < j
       /\ COMMODITY_ALIASES[i].code = NATURAL_GAS_USD
       /\ COMMODITY_ALIASES[j].code = GASOLINE_USD
  /\ output = Str(NATURAL_GAS_USD)

(***************************************************************************)
(* The callers of makeApiRequest: the tool and resource handlers.  A       *)
(* handler continues with what makeApiRequest returned: null or a parsed   *)
(* envelope.  The data field of an envelope is either missing or present.  *)
(***************************************************************************)
DataMissing == "undefined"
DataPresent == "85.42"

EnvelopeStatuses == {"success", "error", "fail"}

Envelopes ==
  {[status |-> s, data |-> d] :
     s \in EnvelopeStatuses, d \in {DataMissing, DataPresent}}

\* What makeApiRequest can return to a handler.
FetchResults == {Null} \cup {Value(e) : e \in Envelopes}

\* Tools that guard with !response || response.status !== "success".
GuardedTools ==
  {"get_commodity_price", "get_market_overview", "get_historical_prices",
   "get_futures_price", "get_futures_curve", "get_marine_fuel_prices",
   "get_rig_counts", "get_drilling_intelligence"}

\* Resources that read response?.data.
Resources ==
  {"price-brent", "price-wti", "price-natural-gas", "market-overview"}

Failure(msg) == [kind |-> "failure", text |-> msg]
Data(d) == [kind |-> "data", text |-> d]
TypeErrorThrown == [kind |-> "thrown", text |-> "TypeError"]

\* Lines 370-391, 412-421, 676-690, 741-752, 787-798, 852-862, 891-896,
\* 925-935: the guard of a tool handler, then the rendering of
\* response.data.
ToolReturn(fetched) ==
  IF fetched = Null \/ fetched.value.status # "success"
  THEN Failure("failed")
  ELSE IF fetched.value.data = DataMissing
  THEN TypeErrorThrown
  ELSE Data(fetched.value.data)

\* Lines 972-984, 999-1011, 1026-1038, 1054-1066:
\* response?.data ?? { error: "unavailable" }.
ResourceReturn(fetched) ==
  IF fetched = Null \/ fetched.value.data = DataMissing
  THEN Failure("unavailable")
  ELSE Data(fetched.value.data)

HandlerReturn(h, fetched) ==
  IF h \in Resources THEN ResourceReturn(fetched) ELSE ToolReturn(fetched)

(***************************************************************************)
(* compare_prices, lines 546-598: the codes are fetched one after the      *)
(* other; batch holds the codes still to fetch, the results pushed so far  *)
(* and what each fetch returned.                                           *)
(***************************************************************************)
\* Longest list of commodities compare_prices accepts (line 543).
MaxCommodities == 5

\* Shortest list it accepts (line 542).
MinCommodities == 2

\* Fewest results it compares (line 560).
MinResults == 2

CompareNames == {<<"b", "r", "e", "n", "t">>, <<"w", "t", "i", " ", "o", "i", "l">>}

RECURSIVE ListsOf(_, _)
ListsOf(S, n) ==
  IF n = 0 THEN {<<>>}
  ELSE {Append(l, x) : l \in ListsOf(S, n - 1), x \in S}

CommodityLists ==
  UNION {ListsOf(CompareNames, n) : n \in MinCommodities..MaxCommodities}

\* Line 546: commodities.map(resolveCommodityCode).
RECURSIVE MapResolve(_)
MapResolve(l) ==
  IF l = <<>> THEN <<>>
  ELSE <<resolveCommodityCode(Head(l)).text>> \o MapResolve(Tail(l))

\* The PriceData the API returns for a code.
PriceOf(code) == [code |-> code, price |-> DataPresent]

\* What makeApiRequest can return for one code of the batch.
ItemResults(code) ==
  {Null,
   Value([status |-> "success", data |-> PriceOf(code)]),
   Value([status |-> "error", data |-> PriceOf(code)])}

\* Lines 555-557: response?.status === "success".
ItemSucceeded(fetched) == fetched # Null /\ fetched.value.status = "success"

\* Lines 560-597: the return of compare_prices.
CompareReturn(results) ==
  IF Len(results) < MinResults
  THEN Failure("not enough")
  ELSE Data(results)

HandlerInputs ==
  {[handler |-> h, fetched |-> f, commodities |-> <<>>] :
     h \in GuardedTools \cup Resources, f \in FetchResults}
    \cup {[handler |-> "compare_prices", fetched |-> Null, commodities |-> l] :
            l \in CommodityLists}

InitHandlers ==
  /\ FetcherIdle
  /\ slept = 0
  /\ input \in HandlerInputs
  /\ output = NoOutput
  /\ batch = NoBatch
  /\ parked = NoParked

\* A tool or resource handler continues after makeApiRequest returned.
Handle ==
  /\ input.handler \in GuardedTools \cup Resources
  /\ output = NoOutput
  /\ output' = HandlerReturn(input.handler, input.fetched)
  /\ UNCHANGED <<pc, attempt, calls, suspensions, response, delay, result,
                 diag, outcomes, slept, input, batch, parked>>

\* compare_prices is called: lines 546-551 up to the first await.
CompareCall ==
  /\ input.handler = "compare_prices"
  /\ batch = NoBatch
  /\ output = NoOutput
  /\ batch' = [codes |-> MapResolve(input.commodities), results |-> <<>>,
               fetched |-> <<>>]
  /\ UNCHANGED <<pc, attempt, calls, suspensions, response, delay, result,
                 diag, outcomes, slept, input, output, parked>>

\* A variant in which a failed fetch ends the batch.
CompareSettles_FailFast ==
  /\ input.handler = "compare_prices"
  /\ batch # NoBatch
  /\ batch.codes # <<>>
  /\ output = NoOutput
  /\ \E f \in ItemResults(Head(batch.codes)) :
       LET results == IF ItemSucceeded(f)
                      THEN Append(batch.results, f.value.data)
                      ELSE batch.results
           rest == IF ItemSucceeded(f) THEN Tail(batch.codes) ELSE <<>>
       IN /\ batch' = [codes |-> rest, results |-> results,
                       fetched |-> Append(batch.fetched, f)]
          /\ output' = IF rest = <<>>
                       THEN IF ItemSucceeded(f) THEN CompareReturn(results)
                            ELSE Failure("not enough")
                       ELSE output
  /\ UNCHANGED <<pc, attempt, calls, suspensions, response, delay, result,
                 diag, outcomes, slept, input, parked>>

\* One makeApiRequest of the loop returns (lines 550-558); after the last
\* code the handler returns (lines 560-597).
CompareSettles ==
  /\ input.handler = "compare_prices"
  /\ batch # NoBatch
  /\ batch.codes # <<>>
  /\ output = NoOutput
  /\ \E f \in ItemResults(Head(batch.codes)) :
       LET results == IF ItemSucceeded(f)
                      THEN Append(batch.results, f.value.data)
                      ELSE batch.results
           rest == Tail(batch.codes)
       IN /\ batch' = [codes |-> rest, results |-> results,
                       fetched |-> Append(batch.fetched, f)]
          /\ output' = IF rest = <<>> THEN CompareReturn(results) ELSE output
  /\ UNCHANGED <<pc, attempt, calls, suspensions, response, delay, result,
                 diag, outcomes, slept, input, parked>>

NextHandlers ==
  \/ Handle
  \/ CompareCall
  \/ CompareSettles

SpecHandlers == InitHandlers /\ [][NextHandlers]_vars

\* C17: every caller of makeApiRequest treats a parsed envelope whose status
\* is not "success" as a failure and does not present its data.
C17_NonSuccessIsFailure ==
  ( /\ input.handler \in GuardedTools \cup Resources
    /\ output # NoOutput
    /\ input.fetched # Null
    /\ input.fetched.value.status # "success" ) =>
      output.kind = "failure"

\* The data of the fetches that succeeded, in the order of the batch.
RECURSIVE SucceededData(_)
SucceededData(fs) ==
  IF fs = <<>> THEN <<>>
  ELSE IF ItemSucceeded(Head(fs))
  THEN <<Head(fs).value.data>> \o SucceededData(Tail(fs))
  ELSE SucceededData(Tail(fs))

CompareDone ==
  input.handler = "compare_prices" /\ batch # NoBatch /\ output # NoOutput

\* C18 as stated: a failed fetch is omitted and the items that did succeed
\* are still reported in the comparison.
C18_SucceededItemsReported ==
  (CompareDone /\ SucceededData(batch.fetched) # <<>>) =>
    output = Data(SucceededData(batch.fetched))

\* C18 as amended: a failed fetch (null or non-success envelope) is omitted
\* and never ends the batch: every code is fetched, and when at least two
\* fetches succeeded exactly the succeeded items are reported, in order;
\* with fewer than two the handler reports that it has not enough data.
C18_FailedItemsOmitted ==
  (input.handler = "compare_prices" /\ batch # NoBatch) =>
    /\ batch.results = SucceededData(batch.fetched)
    /\ Len(batch.fetched) + Len(batch.codes) = Len(input.commodities)
    /\ output # NoOutput <=> batch.codes = <<>>
    /\ output # NoOutput =>
         output = IF Len(SucceededData(batch.fetched)) >= MinResults
                  THEN Data(SucceededData(batch.fetched))
                  ELSE Failure("not enough")

C18_Witness ==
  /\ CompareDone
  /\ Len(batch.fetched) = 4
  /\ ItemSucceeded(batch.fetched[1])
  /\ batch.fetched[2] = Null
  /\ batch.fetched[3] # Null /\ ~ItemSucceeded(batch.fetched[3])
  /\ ItemSucceeded(batch.fetched[4])
  /\ output.kind = "data"
  /\ Len(output.text) = 2

(***************************************************************************)
(* formatPrice, lines 249-278.  The result is a sequence of characters.    *)
(* Prices and changes are counted in hundredths, so that toFixed(2) is a   *)
(* rendering of digits.                                                    *)
(***************************************************************************)
Info(c, n, u) == [code |-> c, name |-> n, unit |-> u]

\* Lines 93-112.
COMMODITY_INFO ==
  <<Info(BRENT_CRUDE_USD,
         <<"B", "r", "e", "n", "t", " ", "C", "r", "u", "d", "e", " ", "O", "i", "l">>,
         <<"b", "a", "r", "r", "e", "l">>),
    Info(WTI_USD,
         <<"W", "T", "I", " ", "C", "r", "u", "d", "e", " ", "O", "i", "l">>,
         <<"b", "a", "r", "r", "e", "l">>),
    Info(URALS_CRUDE_USD,
         <<"U", "r", "a", "l", "s", " ", "C", "r", "u", "d", "e", " ", "O", "i", "l">>,
         <<"b", "a", "r", "r", "e", "l">>),
    Info(DUBAI_CRUDE_USD,
         <<"D", "u", "b", "a", "i", " ", "C", "r", "u", "d", "e", " ", "O", "i", "l">>,
         <<"b", "a", "r", "r", "e", "l">>),
    Info(NATURAL_GAS_USD,
         <<"U", "S", " ", "N", "a", "t", "u", "r", "a", "l", " ", "G", "a", "s", " ", "(", "H", "e", "n", "r", "y", " ", "H", "u", "b", ")">>,
         <<"M", "M", "B", "t", "u">>),
    Info(NATURAL_GAS_GBP,
         <<"U", "K", " ", "N", "a", "t", "u", "r", "a", "l", " ", "G", "a", "s">>,
         <<"t", "h", "e", "r", "m">>),
    Info(DUTCH_TTF_EUR,
         <<"E", "u", "r", "o", "p", "e", "a", "n", " ", "N", "a", "t", "u", "r", "a", "l", " ", "G", "a", "s", " ", "(", "T", "T", "F", ")">>,
         <<"M", "W", "h">>),
    Info(COAL_USD,
         <<"C", "o", "a", "l">>,
         <<"m", "e", "t", "r", "i", "c", " ", "t", "o", "n">>),
    Info(NEWCASTLE_COAL_USD,
         <<"N", "e", "w", "c", "a", "s", "t", "l", "e", " ", "C", "o", "a", "l">>,
         <<"m", "e", "t", "r", "i", "c", " ", "t", "o", "n">>),
    Info(DIESEL_USD,
         <<"D", "i", "e", "s", "e", "l">>,
         <<"g", "a", "l", "l", "o", "n">>),
    Info(GASOLINE_USD,
         <<"G", "a", "s", "o", "l", "i", "n", "e">>,
         <<"g", "a", "l", "l", "o", "n">>),
    Info(GASOLINE_RBOB_USD,
         <<"R", "B", "O", "B", " ", "G", "a", "s", "o", "l", "i", "n", "e">>,
         <<"g", "a", "l", "l", "o", "n">>),
    Info(JET_FUEL_USD,
         <<"J", "e", "t", " ", "F", "u", "e", "l">>,
         <<"g", "a", "l", "l", "o", "n">>),
    Info(HEATING_OIL_USD,
         <<"H", "e", "a", "t", "i", "n", "g", " ", "O", "i", "l">>,
         <<"g", "a", "l", "l", "o", "n">>),
    Info(GOLD_USD,
         <<"G", "o", "l", "d">>,
         <<"t", "r", "o", "y", " ", "o", "z">>),
    Info(EU_CARBON_EUR,
         <<"E", "U", " ", "C", "a", "r", "b", "o", "n", " ", "A", "l", "l", "o", "w", "a", "n", "c", "e", "s">>,
         <<"m", "e", "t", "r", "i", "c", " ", "t", "o", "n", " ", "C", "O", "2">>),
    Info(EUR_USD,
         <<"E", "u", "r", "o", " ", "t", "o", " ", "U", "S", "D">>,
         <<"r", "a", "t", "e">>),
    Info(GBP_USD,
         <<"B", "r", "i", "t", "i", "s", "h", " ", "P", "o", "u", "n", "d", " ", "t", "o", " ", "U", "S", "D">>,
         <<"r", "a", "t", "e">>)>>

\* Line 250: COMMODITY_INFO[data.code] || { name: data.code, unit: "unit" }.
InfoOf(code) ==
  IF \E i \in 1..Len(COMMODITY_INFO) : COMMODITY_INFO[i].code = code
  THEN COMMODITY_INFO[CHOOSE i \in 1..Len(COMMODITY_INFO) :
                        COMMODITY_INFO[i].code = code]
  ELSE Info(code, code, <<"u", "n", "i", "t">>)

\* A variant that does not know the pence spelling.
CurrencySymbol_NoPence(currency) ==
  IF currency = "EUR" THEN "€"
  ELSE IF currency = "GBP" THEN "£"
  ELSE "$"

\* Lines 251-256.
CurrencySymbol(currency) ==
  IF currency = "EUR" THEN "€"
  ELSE IF currency = "GBP" \/ currency = "GBp" THEN "£"
  ELSE "$"

\* (h / 100).toFixed(2) for h >= 0 hundredths.
ToFixed2(h) ==
  DecimalText(h \div 100)
    \o <<".", DigitChars[((h % 100) \div 10) + 1], DigitChars[(h % 10) + 1]>>

\* Math.abs
MathAbs(h) == IF h < 0 THEN 0 - h ELSE h

\* An optional field of PriceData.
Missing == [defined |-> FALSE, v |-> 0]
Given(v) == [defined |-> TRUE, v |-> v]

\* An absent timestamp: the falsy side of data.updated_at || data.created_at.
NoStamp == [defined |-> FALSE, v |-> ""]

\* The instants the API reports, and their en-US medium/short rendering in
\* UTC (lines 269-274).
Instants == {"2024-03-01T08:00:00Z", "2024-03-02T17:30:00Z"}

ToLocaleString(t) ==
  IF t = "2024-03-01T08:00:00Z" THEN <<"M", "a", "r", " ", "1", ",", " ", "2", "0", "2", "4", ",", " ", "8", ":", "0", "0", " ", "A", "M">> ELSE <<"M", "a", "r", " ", "2", ",", " ", "2", "0", "2", "4", ",", " ", "5", ":", "3", "0", " ", "P", "M">>

\* Line 258.
PriceLine(data) ==
  LET info == InfoOf(data.code)
  IN <<"*", "*">> \o info.name \o <<"*", "*", ":", " ">>
       \o <<CurrencySymbol(data.currency)>> \o ToFixed2(data.price)
       \o <<"/">> \o info.unit

\* Lines 260-265.
ChangeLine(data) ==
  IF data.change_24h.defined /\ data.change_24h_percent.defined
  THEN LET sign == IF data.change_24h.v >= 0 THEN "+" ELSE "-"
       IN <<"\n", "-", " ", "2", "4", "h", " ", "C", "h", "a", "n", "g", "e", ":", " ">>
            \o <<sign, CurrencySymbol(data.currency)>>
            \o ToFixed2(MathAbs(data.change_24h.v))
            \o <<" ", "(", sign>>
            \o ToFixed2(MathAbs(data.change_24h_percent.v))
            \o <<"%", ")">>
  ELSE <<>>

\* Lines 267-275.
UpdatedLine(data) ==
  LET timestamp == IF data.updated_at.defined THEN data.updated_at
                   ELSE data.created_at
  IN IF timestamp.defined
     THEN <<"\n", "-", " ", "U", "p", "d", "a", "t", "e", "d", ":", " ">> \o ToLocaleString(timestamp.v) \o <<" ", "U", "T", "C">>
     ELSE <<>>

\* Lines 249-278.
formatPrice(data) ==
  Str(PriceLine(data) \o ChangeLine(data) \o UpdatedLine(data))

(***************************************************************************)
(* The PriceData formatPrice is applied to.                                *)
(***************************************************************************)
UNKNOWN_CODE ==
  <<"S", "O", "M", "E", "_", "U", "N", "K", "N", "O", "W", "N", "_", "C", "O", "D", "E">>

FormatCodes == {BRENT_CRUDE_USD, DUTCH_TTF_EUR, NATURAL_GAS_GBP, UNKNOWN_CODE}
Currencies == {"USD", "EUR", "GBP", "GBp", "eur", "gbp", "JPY", ""}
Prices == {0, 5, 8542}
Changes == {Missing, Given(-150), Given(0), Given(1234)}
Stamps == {NoStamp} \cup {Given(t) : t \in Instants}

PriceDatas ==
  [code : FormatCodes, price : Prices, currency : Currencies,
   change_24h : Changes, change_24h_percent : Changes,
   updated_at : Stamps, created_at : {NoStamp, Given("2024-03-01T08:00:00Z")}]

InitFormat ==
  /\ FetcherIdle
  /\ slept = 0
  /\ input \in PriceDatas
  /\ output = NoOutput
  /\ batch = NoBatch
  /\ parked = NoParked

\* A handler applies formatPrice to response.data (line 381).
Format ==
  /\ output = NoOutput
  /\ output' = formatPrice(input)
  /\ UNCHANGED <<pc, attempt, calls, suspensions, response, delay, result,
                 diag, outcomes, slept, input, batch, parked>>

NextFormat == Format

SpecFormat == InitFormat /\ [][NextFormat]_vars

\* The symbol C19 expects for a currency.
ExpectedSymbol(currency) ==
  CASE currency = "EUR" -> "€"
    [] currency \in {"GBP", "GBp"} -> "£"
    [] OTHER -> "$"

\* The positions of currency symbols in a text.
SymbolPositions(t) == {i \in 1..Len(t) : t[i] \in {"€", "£", "$"}}

HasChangeLine(data) ==
  data.change_24h.defined /\ data.change_24h_percent.defined

\* C19: the price is rendered with the Euro symbol for "EUR", the Pound
\* symbol for "GBP" and "GBp" and the Dollar symbol for every other
\* currency, and the 24h-change line carries the same symbol.
C19_CurrencySymbol ==
  output # NoOutput =>
    LET t == output.text
        sym == ExpectedSymbol(input.currency)
        at == Len(InfoOf(input.code).name) + 7
        label == <<"\n", "-", " ", "2", "4", "h", " ", "C", "h", "a", "n", "g", "e", ":", " ">>
    IN /\ t[at] = sym
       /\ \A i \in SymbolPositions(t) : t[i] = sym
       /\ Cardinality(SymbolPositions(t)) = IF HasChangeLine(input) THEN 2 ELSE 1
       /\ HasChangeLine(input) =>
            \/ Includes(t, label \o <<"+", sym>>)
            \/ Includes(t, label \o <<"-", sym>>)

C19_Witness ==
  /\ output # NoOutput
  /\ input.currency = "GBp"
  /\ input.change_24h = Given(-150)
  /\ input.change_24h_percent = Given(1234)
  /\ Includes(output.text, <<"-", "£", "1", ".", "5", "0", " ", "(", "-", "1", "2", ".", "3", "4", "%", ")">>)
  /\ Includes(output.text, <<":", " ", "£", "8", "5", ".", "4", "2", "/">>)

(***************************************************************************)
(* The order of attempts and suspensions within one call.                  *)
(***************************************************************************)
Sleeping == pc \in {"sleepRetry", "sleepCatch"}

\* Attempts begun and not yet completed.
InFlight == calls - Len(outcomes)

\* A failure the loop retries: a transport error, a 429 or 5xx status, or
\* a body that response.json() rejects.
RetriedFailure(o) ==
  o.kind = "transport" \/ GotRetryable(o) \/ GotInvalidJson(o)

\* C21: within one makeApiRequest call the attempts are strictly
\* sequential: at most one fetch is in flight, attempt n+1 is issued only
\* after attempt n completed with a retried failure and its suspension has
\* elapsed, and no suspension follows the attempt that ends the call.
C21_AttemptsSequential ==
  /\ InFlight \in {0, 1}
  /\ InFlight = 1 <=> pc \in {"awaitFetch", "awaitJson"}
  /\ pc # "idle" => calls = attempt + 1
  /\ \A i \in 1..(calls - 1) :
       /\ i <= Len(outcomes)
       /\ RetriedFailure(outcomes[i])
       /\ i <= maxRetries
  /\ pc # "idle" => suspensions = IF Sleeping THEN calls ELSE calls - 1
  /\ (attempt >= 1 /\ ~Sleeping) => slept >= SleepMs(delay) /\ slept >= attempt
  /\ pc = "done" =>
       /\ InFlight = 0
       /\ suspensions = calls - 1
       /\ (calls <= maxRetries => ~RetriedFailure(outcomes[calls]))

C21_Witness ==
  /\ pc = "done"
  /\ calls = 3
  /\ suspensions = 2
  /\ outcomes[1].kind = "transport"
  /\ GotRetryable(outcomes[2])
  /\ GotValidJson(outcomes[3])
  /\ slept = 1000 + 5000

\* C22: when attempt n < maxRetries fails with a transport error, the
\* suspension before attempt n+1 is exactly 2^n seconds, whatever
\* Retry-After values earlier attempts of the call carried.
C22_TransportBackoffExact ==
  \A i \in 1..Len(outcomes) :
    (outcomes[i].kind = "transport" /\ i <= maxRetries) =>
      /\ (Len(outcomes) = i /\ calls = i) =>
           /\ pc = "sleepCatch"
           /\ delay = Num(MathPow(2, i - 1) * 1000)
           /\ suspensions = i
      /\ (calls = i + 1 /\ Len(outcomes) = i) =>
           /\ delay = Num(MathPow(2, i - 1) * 1000)
           /\ slept >= MathPow(2, i - 1) * 1000
      /\ (i = 1 /\ calls >= 2) => slept >= 1000
      /\ pc = "done" => Len(outcomes) > i

\* A transport error at attempt 1 after a 429 whose Retry-After made the
\* call sleep 5 seconds: the next suspension is 2 seconds.
C22_Witness ==
  /\ pc = "sleepCatch"
  /\ Len(outcomes) = 2
  /\ calls = 2
  /\ GotRetryable(outcomes[1])
  /\ slept = 5000
  /\ outcomes[2].kind = "transport"
  /\ delay = Num(2000)

(***************************************************************************)
(* Two concurrent calls.  Every activation of makeApiRequest has its own   *)
(* locals (lines 287-340); the module-level names it reads, API_KEY,       *)
(* API_BASE and USER_AGENT, are constants.  The locals of the activation   *)
(* that is running are the fetcher variables, those of the other one are   *)
(* kept in parked, and the event loop switches between the two at their    *)
(* awaits.                                                                 *)
(***************************************************************************)
PairStatuses == {200, 404, 503}
PairHints == {Absent, Present(<<"5">>)}
PairBodies == {BodySuccess}

\* The locals of the activation that is running, as call c.
Running(c) ==
  [id |-> c, pc |-> pc, attempt |-> attempt, calls |-> calls,
   suspensions |-> suspensions, response |-> response, delay |-> delay,
   result |-> result, diag |-> diag, outcomes |-> outcomes]

\* The locals of a call that has not been made yet.
NotCalled(c) ==
  [id |-> c, pc |-> "idle", attempt |-> 0, calls |-> 0, suspensions |-> 0,
   response |-> NoResponse, delay |-> NoDelay, result |-> Pending,
   diag |-> "none", outcomes |-> <<>>]

InitPair ==
  /\ FetcherIdle
  /\ slept = 0
  /\ input = NoInput
  /\ output = NoOutput
  /\ batch = NoBatch
  /\ parked = NotCalled(2)

\* fetchFn resolves with a response: lines 302-330.
PairFetchResolves ==
  /\ pc = "awaitFetch"
  /\ \E s \in PairStatuses, h \in PairHints, b \in PairBodies :
       LET resp == [status |-> s, retryAfter |-> h, body |-> b]
       IN /\ response' = resp
          /\ HandleResponse(resp, attempt)
          /\ outcomes' = IF pc' = "awaitJson" THEN outcomes
                         ELSE Append(outcomes, Received(resp))
  /\ UNCHANGED <<attempt, calls>>
  /\ UNCHANGED aux

\* A variant in which the loop variable is one module-level variable of
\* both calls.
Resume_SharedAttempt ==
  /\ parked.pc # "done"
  /\ parked' = [Running(3 - parked.id) EXCEPT !.attempt = attempt]
  /\ pc' = parked.pc
  /\ attempt' = attempt
  /\ calls' = parked.calls
  /\ suspensions' = parked.suspensions
  /\ response' = parked.response
  /\ delay' = parked.delay
  /\ result' = parked.result
  /\ diag' = parked.diag
  /\ outcomes' = parked.outcomes
  /\ UNCHANGED <<slept, input, output, batch>>

\* The running call is suspended at an await (lines 300, 303, 322, 341) or
\* has returned, and the event loop turns to the other call.
Resume ==
  /\ parked.pc # "done"
  /\ parked' = Running(3 - parked.id)
  /\ pc' = parked.pc
  /\ attempt' = parked.attempt
  /\ calls' = parked.calls
  /\ suspensions' = parked.suspensions
  /\ response' = parked.response
  /\ delay' = parked.delay
  /\ result' = parked.result
  /\ diag' = parked.diag
  /\ outcomes' = parked.outcomes
  /\ UNCHANGED <<slept, input, output, batch>>

NextPair ==
  \/ Call
  \/ PairFetchResolves
  \/ FetchRejects
  \/ JsonSettles
  \/ TimerFires
  \/ Resume

SpecPair == InitPair /\ [][NextPair]_vars

\* The locals of call c, running or not.
Frame(c) == IF parked.id = c THEN parked ELSE Running(c)

\* What the locals of a call are, given only what its own fetches
\* received.
OwnOutcomesDetermine(f) ==
  LET n == Len(f.outcomes)
      fetching == f.pc \in {"awaitFetch", "awaitJson"}
      sleeping == f.pc \in {"sleepRetry", "sleepCatch"}
  IN /\ f.calls <= maxRetries + 1
     /\ f.calls = IF fetching THEN n + 1 ELSE n
     /\ f.pc = "idle" <=> f.calls = 0
     /\ f.pc # "idle" => f.attempt = f.calls - 1
     /\ f.suspensions = IF sleeping THEN n ELSE f.calls - (IF f.calls = 0 THEN 0 ELSE 1)
     /\ \A i \in 1..(n - 1) : RetriedFailure(f.outcomes[i])
     /\ n >= 1 =>
          LET last == f.outcomes[n]
              retried == RetriedFailure(last) /\ n <= maxRetries
          IN /\ (retried /\ ~fetching) =>
                  /\ sleeping
                  /\ f.delay =
                       IF GotRetryable(last) /\ f.response.retryAfter = Present(<<"5">>)
                       THEN Num(5 * 1000)
                       ELSE Num(MathPow(2, n - 1) * 1000)
             /\ ~retried => f.pc = "done"
             /\ f.pc = "done" =>
                  f.result = IF GotValidJson(last) THEN ParsedBody(last) ELSE Null
     /\ f.pc # "done" => f.result = Pending

\* C23: two concurrent makeApiRequest calls are independent: under every
\* interleaving, the attempt counter, delay and result of each call are
\* what its own fetches' outcomes determine, each call makes at most 4
\* attempts, and a step of one call leaves the locals of the other as they
\* were.
C23_CallsIndependent ==
  /\ [](\A c \in {1, 2} : OwnOutcomesDetermine(Frame(c)))
  /\ [][Frame(1)' = Frame(1) \/ Frame(2)' = Frame(2)]_vars

\* Call 1 sleeps on a server hint before its second attempt while call 2
\* waits for its third fetch.
C23_Witness ==
  /\ Frame(1).pc = "sleepRetry"
  /\ Frame(1).attempt = 0
  /\ Frame(1).delay = Num(5000)
  /\ Frame(2).pc = "awaitFetch"
  /\ Frame(2).attempt = 2
  /\ Frame(2).outcomes[1].kind = "transport"

\* C24: every value of COMMODITY_ALIASES is a member of COMMODITY_CODES, in
\* every state before and after resolveCommodityCode has read the table.
C24_AliasValuesAreCodes ==
  /\ \A i \in AliasIndexes : COMMODITY_ALIASES[i].code \in CodeSet
  /\ {COMMODITY_ALIASES[i].code : i \in AliasIndexes} \subseteq CodeSet
  /\ (Resolved /\ Normalize(input) \in AliasKeys /\ Normalize(input) \notin CodeSet
        /\ CodePassthrough(Normalize(input)) = Undefined) =>
       output.kind = "string" /\ output.text \in CodeSet

C24_Witness ==
  /\ Resolved
  /\ input = <<"g", "o", "l", "d">>
  /\ input \in AliasKeys
  /\ output = Str(GOLD_USD)
  /\ GOLD_USD \in CodeSet

(***************************************************************************)
(* resolveCommodityCode applied to its own result.                         *)
(***************************************************************************)
\* resolveCommodityCode(v) for a value v: a value that is not a string has
\* no toLowerCase, and line 218 throws a TypeError.
ResolveValue(v) ==
  IF v.kind = "string" THEN resolveCommodityCode(v.text) ELSE TypeErrorThrown

\* A caller applies resolveCommodityCode to the result of
\* resolveCommodityCode.
ResolveTwice ==
  /\ output = NoOutput
  /\ output' = ResolveValue(resolveCommodityCode(input))
  /\ UNCHANGED <<pc, attempt, calls, suspensions, response, delay, result,
                 diag, outcomes, slept, input, batch, parked>>

NextTwice == ResolveTwice

SpecTwice == InitResolve /\ [][NextTwice]_vars

\* C25: resolveCommodityCode is idempotent: applying it to its own result
\* gives that result again, for every input string.
C25_ResolveIdempotent ==
  output # NoOutput => output = resolveCommodityCode(input)

(***************************************************************************)
(* Progress of one call.  Every fetchFn promise settles, every             *)
(* response.json() promise settles and every timer fires.                  *)
(***************************************************************************)
FetchSettles == FetchResolves \/ FetchRejects

SpecLive ==
  /\ Init
  /\ [][Next]_vars
  /\ WF_vars(FetchSettles)
  /\ WF_vars(JsonSettles)
  /\ WF_vars(TimerFires)

Completed == pc = "done" /\ result.kind \in {"value", "null"}

\* C26: every makeApiRequest call eventually completes: once called, and
\* whatever its fetches receive, it reaches a terminal state with a parsed
\* value or null after at most maxRetries + 1 attempts, and stays there.
C26_CallCompletes ==
  /\ (pc # "idle") ~> Completed
  /\ [](Completed => [](Completed /\ calls <= maxRetries + 1))

C26_Witness ==
  /\ Completed
  /\ calls = maxRetries + 1
  /\ suspensions = maxRetries
  /\ outcomes[1].kind = "transport"
  /\ GotInvalidJson(outcomes[2])
  /\ GotRetryable(outcomes[3])
  /\ GotValidJson(outcomes[4])
  /\ result.kind = "value"

====
